---- MODULE Spec2Model ----
(***************************************************************************)
(* Model of the VideoEngagementAnalyzer class (constructor, preprocessData, *)
(* calculateCommunityMetrics, calculateStageBreakdown, generateInsights,    *)
(* generateStrategies, calculateMonthlyTrends, analyze) and of the upload    *)
(* handler of the VideoEngagementUI component (parseCSV, handleFileUpload).  *)
(*                                                                          *)
(* JavaScript numbers are modelled as exact rationals n/d plus the three    *)
(* special values NaN, Infinity and -Infinity.  On the integer inputs of    *)
(* this model (all magnitudes far below 2^53, denominators below 20) IEEE   *)
(* double arithmetic gives the same sums, the same outcome of every         *)
(* threshold comparison and the same toFixed(1) digits as exact arithmetic. *)
(***************************************************************************)
EXTENDS Integers, Sequences, FiniteSets, TLC

VARIABLES
    tz,             \* host time zone, hours east of UTC (environment)
    now,            \* the host clock, a time value (hours since the epoch)
    rawData,        \* this.rawData
    processedData,  \* this.processedData
    lastResult,     \* outcome of the latest analyze() call
    prevResult,     \* outcome of the analyze() call before the latest
    callerData,     \* the array of raw records handed to the constructor
    loading,        \* the component's loading state
    analysisResult, \* the component's analysisResult state
    uploads,        \* number of files selected so far
    pending,        \* the uploads whose file.text() has not settled yet
    handler,        \* position of the handler run that is executing, if any
    lastUpload      \* the upload whose handler run ended last, and how

vars == <<tz, now, rawData, processedData, lastResult, prevResult,
          callerData, loading, analysisResult, uploads, pending, handler, lastUpload>>

ui == <<loading, analysisResult, uploads, pending, handler, lastUpload>>

(***************************************************************************)
(* Bounds of the model.                                                     *)
(***************************************************************************)
MaxRows == 2        \* rows of a multi-row upload
MaxCount == 10      \* largest count of the single-row numeric sweep
MaxUploads == 2     \* files selected in one session of the component

(***************************************************************************)
(* JavaScript numbers.                                                      *)
(***************************************************************************)
Abs(x) == IF x < 0 THEN -x ELSE x

RECURSIVE GCD(_, _)
GCD(a, b) == IF b = 0 THEN a ELSE GCD(b, a % b)

\* the finite number n/d (d # 0), in lowest terms with a positive denominator
Fin(n, d) ==
    LET g == GCD(Abs(n), Abs(d))
        s == IF d < 0 THEN -1 ELSE 1
    IN  [k |-> "fin", n |-> (s * n) \div g, d |-> (s * d) \div g]

Num(i) == [k |-> "fin", n |-> i, d |-> 1]
NaN == [k |-> "nan", n |-> 0, d |-> 1]
Infinity == [k |-> "inf", n |-> 1, d |-> 1]
NegInfinity == [k |-> "inf", n |-> -1, d |-> 1]

IsNaN(x) == x.k = "nan"
IsFinite(x) == x.k = "fin"
Sign(x) == IF x.n > 0 THEN 1 ELSE IF x.n < 0 THEN -1 ELSE 0
SignedInfinity(s) == IF s < 0 THEN NegInfinity ELSE Infinity

\* ToBoolean of a number: false for 0 and NaN
Truthy(x) == ~IsNaN(x) /\ x.n # 0

\* a + b
JsAdd(a, b) ==
    IF IsNaN(a) \/ IsNaN(b) THEN NaN
    ELSE IF a.k = "inf" /\ b.k = "inf" THEN (IF a.n = b.n THEN a ELSE NaN)
    ELSE IF a.k = "inf" THEN a
    ELSE IF b.k = "inf" THEN b
    ELSE Fin(a.n * b.d + b.n * a.d, a.d * b.d)

\* a * b
JsMul(a, b) ==
    IF IsNaN(a) \/ IsNaN(b) THEN NaN
    ELSE IF a.k = "inf" \/ b.k = "inf"
         THEN (IF Sign(a) * Sign(b) = 0 THEN NaN ELSE SignedInfinity(Sign(a) * Sign(b)))
    ELSE Fin(a.n * b.n, a.d * b.d)

\* a / b
JsDiv(a, b) ==
    IF IsNaN(a) \/ IsNaN(b) THEN NaN
    ELSE IF a.k = "inf" /\ b.k = "inf" THEN NaN
    ELSE IF a.k = "inf" THEN SignedInfinity(IF Sign(b) < 0 THEN -Sign(a) ELSE Sign(a))
    ELSE IF b.k = "inf" THEN Num(0)
    ELSE IF b.n = 0 THEN (IF a.n = 0 THEN NaN ELSE SignedInfinity(Sign(a)))
    ELSE Fin(a.n * b.d, a.d * b.n)

\* a < b and a > b: false whenever an operand is NaN
JsLt(a, b) ==
    /\ ~IsNaN(a)
    /\ ~IsNaN(b)
    /\ IF a.k = "inf" THEN a.n < 0 /\ ~(b.k = "inf" /\ b.n < 0)
       ELSE IF b.k = "inf" THEN b.n > 0
       ELSE a.n * b.d < b.n * a.d

JsGt(a, b) == JsLt(b, a)

\* x.toFixed(1): the sign and the decimal digits of x rounded to one decimal,
\* a tie taking the larger magnitude; NaN and the infinities print their names
Fixed(sign, int, frac, lit) == [sign |-> sign, int |-> int, frac |-> frac, lit |-> lit]

NoText == Fixed("", 0, 0, "")

ToFixed1(x) ==
    IF IsNaN(x) THEN Fixed("", 0, 0, "NaN")
    ELSE IF x.k = "inf" THEN Fixed(IF x.n < 0 THEN "-" ELSE "", 0, 0, "Infinity")
    ELSE LET t == (20 * Abs(x.n) + x.d) \div (2 * x.d)
         IN  Fixed(IF x.n < 0 THEN "-" ELSE "", t \div 10, t % 10, "digits")

(***************************************************************************)
(* Raw field values: string | number | undefined.                           *)
(***************************************************************************)
NumberValue(x) == [t |-> "number", num |-> x, str |-> ""]
StringValue(s) == [t |-> "string", num |-> NaN, str |-> s]
Undefined == [t |-> "undefined", num |-> NaN, str |-> ""]

\* Number(s) for a string: the numeric literals of the model's inputs, the
\* empty string is 0, any other text is NaN
StringToNumber(s) ==
    CASE s = "" -> Num(0)
      [] s = "0" -> Num(0)
      [] s = "7" -> Num(7)
      [] s = "-2" -> Num(-2)
      [] s = "Infinity" -> Infinity
      [] OTHER -> NaN

\* Number(v)
ToNumber(v) ==
    CASE v.t = "number" -> v.num
      [] v.t = "string" -> StringToNumber(v.str)
      [] v.t = "undefined" -> NaN

\* Number(v) || 0
NumberOrZero(v) == LET x == ToNumber(v) IN IF Truthy(x) THEN x ELSE Num(0)

(***************************************************************************)
(* Dates.  A Date holds a time value: here whole hours since                *)
(* 2023-01-01T00:00Z, or no time value at all (an Invalid Date).            *)
(***************************************************************************)
Epoch == [y |-> 2023, m |-> 1]

IsLeap(y) == (y % 4 = 0 /\ y % 100 # 0) \/ y % 400 = 0

DaysInMonth(y, m) ==
    IF m = 2 THEN (IF IsLeap(y) THEN 29 ELSE 28)
    ELSE IF m \in {4, 6, 9, 11} THEN 30 ELSE 31

\* days from the first day of the epoch month to the first day of month y-m
RECURSIVE DaysToMonth(_, _)
DaysToMonth(y, m) ==
    IF y = Epoch.y /\ m = Epoch.m THEN 0
    ELSE LET py == IF m = 1 THEN y - 1 ELSE y
             pm == IF m = 1 THEN 12 ELSE m - 1
         IN  DaysToMonth(py, pm) + DaysInMonth(py, pm)

\* the UTC time value of the civil date and hour
TimeUTC(y, m, d, h) == (DaysToMonth(y, m) + (d - 1)) * 24 + h

\* the UTC calendar fields of a day number, walking month by month
RECURSIVE CivilFromDays(_, _, _)
CivilFromDays(y, m, n) ==
    IF n < DaysInMonth(y, m) THEN [y |-> y, m |-> m, d |-> n + 1]
    ELSE CivilFromDays(IF m = 12 THEN y + 1 ELSE y, IF m = 12 THEN 1 ELSE m + 1,
                       n - DaysInMonth(y, m))

\* the date-time forms the tracking-date column takes in this model:
\* "YYYY-MM-DD" (ISO date-only form, read as UTC midnight), "YYYY/MM/DD"
\* (a non-ISO form, read as midnight local time) and text that is no date
DateFields(s) ==
    CASE s = "2024-01-15" -> [ok |-> TRUE, utc |-> TRUE, y |-> 2024, m |-> 1, d |-> 15]
      [] s = "2024-01-28" -> [ok |-> TRUE, utc |-> TRUE, y |-> 2024, m |-> 1, d |-> 28]
      [] s = "2024-02-01" -> [ok |-> TRUE, utc |-> TRUE, y |-> 2024, m |-> 2, d |-> 1]
      [] s = "2024/02/01" -> [ok |-> TRUE, utc |-> FALSE, y |-> 2024, m |-> 2, d |-> 1]
      [] OTHER -> [ok |-> FALSE, utc |-> FALSE, y |-> 0, m |-> 0, d |-> 0]

InvalidDate == [valid |-> FALSE, t |-> 0]

\* new Date(v) for a string or an absent value
NewDate(v) ==
    CASE v.t = "undefined" -> InvalidDate
      [] v.t = "string" ->
            LET f == DateFields(v.str)
            IN  IF ~f.ok THEN InvalidDate
                ELSE [valid |-> TRUE,
                      t |-> TimeUTC(f.y, f.m, f.d, 0) - (IF f.utc THEN 0 ELSE tz)]

\* date.toISOString() of a valid date: the UTC fields that the text
\* "YYYY-MM-DDTHH:..." spells out (an Invalid Date throws a RangeError instead)
ToISOString(date) ==
    LET c == CivilFromDays(Epoch.y, Epoch.m, date.t \div 24)
    IN  [y |-> c.y, m |-> c.m, d |-> c.d, h |-> date.t % 24]

ToISOStringThrows(date) == ~date.valid

\* iso.slice(0, 7) is "YYYY-MM" and iso.slice(0, 10) is "YYYY-MM-DD"
Slice7(iso) == <<iso.y, iso.m>>
Slice10(iso) == <<iso.y, iso.m, iso.d>>

(***************************************************************************)
(* Objects used as maps (Record<string, T>): the own properties in the      *)
(* order Object.keys and Object.entries list them, integer-like keys first  *)
(* in ascending numeric order, then the other keys in insertion order.      *)
(***************************************************************************)
\* the array index a property key spells, -1 when it is no integer-like key
ArrayIndex(key) ==
    CASE key = "1" -> 1
      [] key = "2" -> 2
      [] OTHER -> -1

ObjHas(obj, key) == \E i \in DOMAIN obj : obj[i].key = key

ObjGet(obj, key) == obj[CHOOSE i \in DOMAIN obj : obj[i].key = key].value

\* obj[key] = value for a key that is never integer-like (a "YYYY-MM" month
\* key): an existing property keeps its place, a new one goes last
ObjPutLast(obj, key, value) ==
    IF ObjHas(obj, key)
    THEN [i \in DOMAIN obj |->
            IF obj[i].key = key THEN [key |-> key, value |-> value] ELSE obj[i]]
    ELSE Append(obj, [key |-> key, value |-> value])

\* obj[key] = value for a string key: an existing property keeps its place, a
\* new integer-like one goes after the smaller integer-like ones, any other
\* new one goes last
ObjPut(obj, key, value) ==
    IF ObjHas(obj, key) \/ ArrayIndex(key) < 0 THEN ObjPutLast(obj, key, value)
    ELSE LET before == Cardinality({i \in DOMAIN obj :
                            ArrayIndex(obj[i].key) >= 0
                            /\ ArrayIndex(obj[i].key) < ArrayIndex(key)})
         IN  SubSeq(obj, 1, before) \o <<[key |-> key, value |-> value]>>
             \o SubSeq(obj, before + 1, Len(obj))

(***************************************************************************)
(* VideoEngagementAnalyzer.                                                 *)
(***************************************************************************)
Row(date, invites, clicks, plays, playTime, stage, community) ==
    [TrackingDate |-> date, Invites |-> invites, Clicks |-> clicks, Plays |-> plays,
     PlayTime |-> playTime, AutomationStage |-> stage, Community |-> community]

\* preprocessData: a fresh row per raw row, the date parsed, the four
\* numeric fields coerced by Number(x) || 0, the other fields copied
preprocessData(data) ==
    [i \in DOMAIN data |->
        Row(NewDate(data[i].TrackingDate),
            NumberOrZero(data[i].Invites),
            NumberOrZero(data[i].Clicks),
            NumberOrZero(data[i].Plays),
            NumberOrZero(data[i].PlayTime),
            data[i].AutomationStage,
            data[i].Community)]

\* the StageMetrics a stage or a month starts from
EmptyMetrics ==
    [invites |-> Num(0), clicks |-> Num(0), plays |-> Num(0), playTime |-> Num(0),
     count |-> Num(0)]

\* the five += / ++ of one row
Accumulate(m, row) ==
    [invites |-> JsAdd(m.invites, row.Invites),
     clicks |-> JsAdd(m.clicks, row.Clicks),
     plays |-> JsAdd(m.plays, row.Plays),
     playTime |-> JsAdd(m.playTime, row.PlayTime),
     count |-> JsAdd(m.count, Num(1))]

\* avgPlayTime = plays ? playTime / plays : 0
WithAvgPlayTime(m) ==
    [invites |-> m.invites, clicks |-> m.clicks, plays |-> m.plays,
     playTime |-> m.playTime, count |-> m.count,
     avgPlayTime |-> IF Truthy(m.plays) THEN JsDiv(m.playTime, m.plays) ELSE Num(0)]

\* the stages object after the forEach has visited the first n rows
RECURSIVE StagesAfter(_, _)
StagesAfter(data, n) ==
    IF n = 0 THEN <<>>
    ELSE LET stages == StagesAfter(data, n - 1)
             key == data[n].AutomationStage
             stage == IF ObjHas(stages, key) THEN ObjGet(stages, key) ELSE EmptyMetrics
         IN  ObjPut(stages, key, Accumulate(stage, data[n]))

\* calculateStageBreakdown with the `if (!stages[...])` test left out: every
\* row starts its stage afresh
RECURSIVE StagesAfterReset(_, _)
StagesAfterReset(data, n) ==
    IF n = 0 THEN <<>>
    ELSE ObjPut(StagesAfterReset(data, n - 1), data[n].AutomationStage,
                Accumulate(EmptyMetrics, data[n]))

calculateStageBreakdownReset(data) ==
    LET stages == StagesAfterReset(data, Len(data))
    IN  [i \in DOMAIN stages |->
            [key |-> stages[i].key, value |-> WithAvgPlayTime(stages[i].value)]]

calculateStageBreakdown(data) ==
    LET stages == StagesAfter(data, Len(data))
    IN  [i \in DOMAIN stages |->
            [key |-> stages[i].key, value |-> WithAvgPlayTime(stages[i].value)]]

\* data.reduce((sum, row) => sum + row[field], 0) over the first n rows
RECURSIVE SumField(_, _, _)
SumField(data, field, n) ==
    IF n = 0 THEN Num(0) ELSE JsAdd(SumField(data, field, n - 1), data[n][field])

\* calculateCommunityMetrics with the zero guards of the three rates left out
calculateCommunityMetricsUnguarded(communityData) ==
    LET n == Len(communityData)
        totalInvites == SumField(communityData, "Invites", n)
        totalClicks == SumField(communityData, "Clicks", n)
        totalPlays == SumField(communityData, "Plays", n)
        totalPlayTime == SumField(communityData, "PlayTime", n)
    IN  [totalInvites |-> totalInvites,
         totalClicks |-> totalClicks,
         totalPlays |-> totalPlays,
         totalPlayTime |-> totalPlayTime,
         clickRate |-> JsMul(JsDiv(totalClicks, totalInvites), Num(100)),
         playRate |-> JsMul(JsDiv(totalPlays, totalClicks), Num(100)),
         avgPlayTime |-> JsDiv(totalPlayTime, totalPlays),
         stageBreakdown |-> calculateStageBreakdown(communityData)]

calculateCommunityMetrics(communityData) ==
    LET n == Len(communityData)
        totalInvites == SumField(communityData, "Invites", n)
        totalClicks == SumField(communityData, "Clicks", n)
        totalPlays == SumField(communityData, "Plays", n)
        totalPlayTime == SumField(communityData, "PlayTime", n)
    IN  [totalInvites |-> totalInvites,
         totalClicks |-> totalClicks,
         totalPlays |-> totalPlays,
         totalPlayTime |-> totalPlayTime,
         clickRate |-> IF Truthy(totalInvites)
                       THEN JsMul(JsDiv(totalClicks, totalInvites), Num(100)) ELSE Num(0),
         playRate |-> IF Truthy(totalClicks)
                      THEN JsMul(JsDiv(totalPlays, totalClicks), Num(100)) ELSE Num(0),
         avgPlayTime |-> IF Truthy(totalPlays)
                         THEN JsDiv(totalPlayTime, totalPlays) ELSE Num(0),
         stageBreakdown |-> calculateStageBreakdown(communityData)]

\* an insight string: its fixed text, the toFixed(1) number and the stage
\* name interpolated into it (NoText, "" when the template has none)
Insight(text, num, stage) == [text |-> text, num |-> num, stage |-> stage]

StrongText == "Strong initial engagement with ${}% click rate"
OpportunityText == "Opportunity to improve initial engagement (${}% click rate)"
ExcellentText == "Excellent average watch time of ${} minutes"
StrongestText == "Strongest performance in ${} stage"

\* stages.reduce((best, current) => current.plays > best.plays ? current : best)
\* over the first n entries, n >= 1 (the first entry is the initial value)
RECURSIVE BestStage(_, _)
BestStage(stages, n) ==
    IF n = 1 THEN stages[1]
    ELSE LET best == BestStage(stages, n - 1)
         IN  IF JsGt(stages[n].value.plays, best.value.plays) THEN stages[n] ELSE best

\* generateInsights with `clickRate >= 50` for `clickRate > 50`
generateInsightsFrom50(metrics) ==
    LET click == IF ~JsLt(metrics.clickRate, Num(50))
                 THEN <<Insight(StrongText, ToFixed1(metrics.clickRate), "")>>
                 ELSE IF JsLt(metrics.clickRate, Num(30))
                 THEN <<Insight(OpportunityText, ToFixed1(metrics.clickRate), "")>>
                 ELSE <<>>
        watch == IF JsGt(metrics.avgPlayTime, Num(5))
                 THEN <<Insight(ExcellentText, ToFixed1(metrics.avgPlayTime), "")>>
                 ELSE <<>>
        stages == metrics.stageBreakdown
        bestStage == BestStage(stages, Len(stages))
    IN  click \o watch \o <<Insight(StrongestText, NoText, bestStage.key)>>

\* generateInsights with `avgPlayTime >= 5` for `avgPlayTime > 5`
generateInsightsFrom5(metrics) ==
    LET click == IF JsGt(metrics.clickRate, Num(50))
                 THEN <<Insight(StrongText, ToFixed1(metrics.clickRate), "")>>
                 ELSE IF JsLt(metrics.clickRate, Num(30))
                 THEN <<Insight(OpportunityText, ToFixed1(metrics.clickRate), "")>>
                 ELSE <<>>
        watch == IF ~JsLt(metrics.avgPlayTime, Num(5))
                 THEN <<Insight(ExcellentText, ToFixed1(metrics.avgPlayTime), "")>>
                 ELSE <<>>
        stages == metrics.stageBreakdown
        bestStage == BestStage(stages, Len(stages))
    IN  click \o watch \o <<Insight(StrongestText, NoText, bestStage.key)>>

generateInsights(metrics) ==
    LET click == IF JsGt(metrics.clickRate, Num(50))
                 THEN <<Insight(StrongText, ToFixed1(metrics.clickRate), "")>>
                 ELSE IF JsLt(metrics.clickRate, Num(30))
                 THEN <<Insight(OpportunityText, ToFixed1(metrics.clickRate), "")>>
                 ELSE <<>>
        watch == IF JsGt(metrics.avgPlayTime, Num(5))
                 THEN <<Insight(ExcellentText, ToFixed1(metrics.avgPlayTime), "")>>
                 ELSE <<>>
        stages == metrics.stageBreakdown
        bestStage == BestStage(stages, Len(stages))
    IN  click \o watch \o <<Insight(StrongestText, NoText, bestStage.key)>>

EngagementStrategy ==
    [focus |-> "Improve Initial Engagement",
     actions |-> <<"A/B test video thumbnail images",
                   "Optimize video titles for clarity and impact",
                   "Send invites during peak engagement hours",
                   "Include personalized preview content in invitations">>]

PlayRateStrategy ==
    [focus |-> "Increase Play Rate",
     actions |-> <<"Add social proof elements to landing pages",
                   "Include video duration in preview",
                   "Create stage-specific video content",
                   "Implement one-click play functionality">>]

WatchTimeStrategy ==
    [focus |-> "Extend Watch Time",
     actions |-> <<"Add chapter markers for longer videos",
                   "Include interactive elements at key dropoff points",
                   "Create shorter, more focused video content",
                   "Add compelling calls-to-action throughout">>]

\* generateStrategies with `avgPlayTime <= 3` for `avgPlayTime < 3`
generateStrategiesUpTo3(metrics) ==
    (IF JsLt(metrics.clickRate, Num(40)) THEN <<EngagementStrategy>> ELSE <<>>)
    \o (IF JsLt(metrics.playRate, Num(70)) THEN <<PlayRateStrategy>> ELSE <<>>)
    \o (IF ~JsGt(metrics.avgPlayTime, Num(3)) THEN <<WatchTimeStrategy>> ELSE <<>>)

generateStrategies(metrics) ==
    (IF JsLt(metrics.clickRate, Num(40)) THEN <<EngagementStrategy>> ELSE <<>>)
    \o (IF JsLt(metrics.playRate, Num(70)) THEN <<PlayRateStrategy>> ELSE <<>>)
    \o (IF JsLt(metrics.avgPlayTime, Num(3)) THEN <<WatchTimeStrategy>> ELSE <<>>)

\* row['Tracking Date Formatted'].toISOString().slice(0, 7)
monthKey(row) == Slice7(ToISOString(row.TrackingDate))

\* the monthlyData object after the forEach has visited the first n rows
RECURSIVE MonthsAfter(_, _)
MonthsAfter(data, n) ==
    IF n = 0 THEN <<>>
    ELSE LET monthlyData == MonthsAfter(data, n - 1)
             key == monthKey(data[n])
             month == IF ObjHas(monthlyData, key) THEN ObjGet(monthlyData, key)
                      ELSE EmptyMetrics
         IN  ObjPutLast(monthlyData, key, Accumulate(month, data[n]))

\* calculateMonthlyTrends with the key cut at slice(0, 4), the year alone
RECURSIVE YearsAfter(_, _)
YearsAfter(data, n) ==
    IF n = 0 THEN <<>>
    ELSE LET monthlyData == YearsAfter(data, n - 1)
             key == <<ToISOString(data[n].TrackingDate).y>>
             month == IF ObjHas(monthlyData, key) THEN ObjGet(monthlyData, key)
                      ELSE EmptyMetrics
         IN  ObjPutLast(monthlyData, key, Accumulate(month, data[n]))

calculateMonthlyTrendsByYear ==
    LET monthlyData == YearsAfter(processedData, Len(processedData))
    IN  [i \in DOMAIN monthlyData |->
            [key |-> monthlyData[i].key, value |-> WithAvgPlayTime(monthlyData[i].value)]]

\* calculateMonthlyTrends when every toISOString() returns
calculateMonthlyTrends ==
    LET monthlyData == MonthsAfter(processedData, Len(processedData))
    IN  [i \in DOMAIN monthlyData |->
            [key |-> monthlyData[i].key, value |-> WithAvgPlayTime(monthlyData[i].value)]]

\* calculateMonthlyTrends throws the RangeError of toISOString() at the first
\* row that holds an Invalid Date
calculateMonthlyTrendsThrows ==
    \E i \in DOMAIN processedData : ToISOStringThrows(processedData[i].TrackingDate)

\* [...new Set(data.map(row => row['Community']))] over the first n rows:
\* the distinct communities in first-seen order
RECURSIVE Communities(_, _)
Communities(data, n) ==
    IF n = 0 THEN <<>>
    ELSE LET seen == Communities(data, n - 1)
         IN  IF \E i \in DOMAIN seen : seen[i] = data[n].Community THEN seen
             ELSE Append(seen, data[n].Community)

\* data.filter(...) with a predicate that keeps every row
FilterCommunityAll(data, community, n) == SubSeq(data, 1, n)

\* data.filter(row => row['Community'] === community)
RECURSIVE FilterCommunity(_, _, _)
FilterCommunity(data, community, n) ==
    IF n = 0 THEN <<>>
    ELSE LET rest == FilterCommunity(data, community, n - 1)
         IN  IF data[n].Community = community THEN Append(rest, data[n]) ELSE rest

\* the analysis object after the forEach has visited the first n communities
RECURSIVE AnalysisAfter(_, _, _)
AnalysisAfter(communities, n, analysis) ==
    IF n = 0 THEN analysis
    ELSE LET a == AnalysisAfter(communities, n - 1, analysis)
             community == communities[n]
             communityData == FilterCommunity(processedData, community,
                                              Len(processedData))
             metrics == calculateCommunityMetrics(communityData)
         IN  [a EXCEPT
                !.communityInsights =
                    ObjPut(@, community,
                           [metrics |-> metrics, insights |-> generateInsights(metrics)]),
                !.followUpStrategies =
                    ObjPut(@, community, generateStrategies(metrics))]

NoReport ==
    [communityInsights |-> <<>>, followUpStrategies |-> <<>>, monthlyTrends |-> <<>>,
     analysisDate |-> <<>>]

Returned(report) == [status |-> "returned", report |-> report]
Threw == [status |-> "threw", report |-> NoReport]
NotCalled == [status |-> "none", report |-> NoReport]

\* analyze(): the report it returns, or the exception that leaves it, when
\* new Date() reads the time value clock
analyze(clock) ==
    IF calculateMonthlyTrendsThrows THEN Threw
    ELSE LET communities == Communities(processedData, Len(processedData))
             analysis == [communityInsights |-> <<>>,
                          followUpStrategies |-> <<>>,
                          monthlyTrends |-> calculateMonthlyTrends,
                          analysisDate |-> Slice10(ToISOString([valid |-> TRUE, t |-> clock]))]
         IN  Returned(AnalysisAfter(communities, Len(communities), analysis))

(***************************************************************************)
(* VideoEngagementUI.parseCSV.  A CSV text is held as split('\n') and       *)
(* split(',') cut it: a sequence of lines, each a sequence of cell texts.   *)
(***************************************************************************)
\* s.trim() on the cell texts of this model
Trim(s) ==
    CASE s = " " -> ""
      [] s = " 7" -> "7"
      [] OTHER -> s

\* s.replace(/"/g, '') on the cell texts of this model
Unquote(s) ==
    CASE s = "\"Community\"" -> "Community"
      [] s = "\"North\"" -> "North"
      [] s = "\"South\"" -> "South"
      [] OTHER -> s

\* v.trim().replace(/"/g, '')
Clean(s) == Unquote(Trim(s))

\* isNaN(Number(v)) ? v : Number(v), for a cell text
Convert(s) ==
    IF IsNaN(StringToNumber(s)) THEN StringValue(s) ELSE NumberValue(StringToNumber(s))

\* line.trim() is the empty text: the line is one cell of white space
Blank(line) == Len(line) = 1 /\ Trim(line[1]) = ""

\* row[name] after the reduce over the headers: the converted cell under the
\* last header of that name, undefined when the line has no such cell or the
\* header line no such name
Cell(headers, values, name) ==
    LET at == {i \in DOMAIN headers : headers[i] = name}
    IN  IF at = {} THEN Undefined
        ELSE LET i == CHOOSE k \in at : \A j \in at : j <= k
             IN  IF i \in DOMAIN values THEN Convert(Clean(values[i])) ELSE Undefined

\* the value of a cell that the conversion has left a text
TextOf(v) == v.str

\* parseCSV(text): one record per non-blank line after the header line
parseCSV(text) ==
    LET headers == [i \in DOMAIN text[1] |-> Clean(text[1][i])]
        NotBlank(line) == ~Blank(line)
        lines == SelectSeq(Tail(text), NotBlank)
    IN  [n \in DOMAIN lines |->
            Row(Cell(headers, lines[n], "Tracking Date Formatted"),
                Cell(headers, lines[n], "Invites"),
                Cell(headers, lines[n], "Clicks"),
                Cell(headers, lines[n], "Plays"),
                Cell(headers, lines[n], "Play Time (Min)"),
                TextOf(Cell(headers, lines[n], "Automation Stage")),
                TextOf(Cell(headers, lines[n], "Community")))]

(***************************************************************************)
(* Inputs: the host environment and the rows handed to the constructor.     *)
(***************************************************************************)
TimezoneOffsets == {0, 1}

ClockTimes == {TimeUTC(2024, 3, 9, 12), TimeUTC(2024, 3, 10, 12)}

Stages == {"Welcome", "Nurture", "1"}

CommunityNames == {"North", "South"}

PlainRow(date, i, c, p, t, stage, community) ==
    Row(StringValue(date), NumberValue(Num(i)), NumberValue(Num(c)),
        NumberValue(Num(p)), NumberValue(Num(t)), stage, community)

\* one row of plain counts: every invites, clicks and plays count, and every
\* plays count and play time
SweepRows ==
    {PlainRow("2024-01-15", i, c, p, 4 * p, "Welcome", "North") :
        i \in 0..MaxCount, c \in 0..MaxCount, p \in 0..MaxCount}
    \cup {PlainRow("2024-01-15", 10, 6, p, t, "Welcome", "North") :
        p \in 0..MaxCount, t \in 0..MaxCount}

\* the kinds of value a numeric column can hold: a number (positive,
\* negative, infinite), numeric text, the empty text, other text, nothing
RawValues ==
    {NumberValue(Num(3)), NumberValue(Num(-2)), NumberValue(Infinity),
     StringValue("7"), StringValue(""), StringValue("abc"), Undefined}

CoercionRows ==
    {Row(StringValue("2024-01-15"), i, c, p, t, "Welcome", "North") :
        i \in RawValues, c \in RawValues, p \in RawValues, t \in RawValues}

\* a tracking date in a local-time form, one that is no date, an absent one
DateRows ==
    {Row(date, NumberValue(Num(10)), NumberValue(Num(5)), NumberValue(Num(2)),
         NumberValue(Num(8)), "Welcome", "North") :
        date \in {StringValue("2024/02/01"), StringValue("n/a"), Undefined}}

\* rows of several months and communities, and of several stages and plays
GroupRows ==
    {PlainRow(date, 10, 5, 1, 4, "Welcome", community) :
        date \in {"2024-01-15", "2024-01-28", "2024-02-01"},
        community \in CommunityNames}
    \cup {PlainRow("2024-01-15", 10, 5, p, 4 * p, stage, community) :
        p \in {1, 2}, stage \in Stages, community \in CommunityNames}

RECURSIVE SeqsUpTo(_, _)
SeqsUpTo(S, n) ==
    IF n = 0 THEN {<<>>}
    ELSE LET shorter == SeqsUpTo(S, n - 1)
         IN  shorter \cup {Append(q, x) : q \in {r \in shorter : Len(r) = n - 1}, x \in S}

Datasets ==
    {<<row>> : row \in SweepRows \cup CoercionRows \cup DateRows}
    \cup SeqsUpTo(GroupRows, MaxRows)

HeaderLine ==
    <<"Tracking Date Formatted", "Invites", "Clicks", "Plays", "Play Time (Min)",
      "Automation Stage", "Community">>

\* one row and the empty last line that a final line break leaves
PlainFile ==
    <<HeaderLine, <<"2024-01-15", "7", "7", "7", "7", "Welcome", "North">>, <<"">>>>

\* columns in another order, quoted and padded cells, an empty cell, a line
\* of white space between two rows
QuotedFile ==
    <<<<"\"Community\"", "Invites", "Clicks", "Plays", "Play Time (Min)",
        "Automation Stage", "Tracking Date Formatted">>,
      <<"\"South\"", " 7", "0", "0", "", "Nurture", "2024-02-01">>,
      <<" ">>,
      <<"\"North\"", "7", "7", "-2", "7", "Welcome", "2024-01-28">>>>

\* a tracking date that is no date
BadDateFile ==
    <<HeaderLine, <<"n/a", "7", "7", "7", "7", "Welcome", "North">>>>

\* a header line and no row
HeaderOnlyFile == <<HeaderLine>>

\* the texts of the files the user can select
Files == {PlainFile, QuotedFile, BadDateFile, HeaderOnlyFile}

(***************************************************************************)
(* The state machine of one analyzer instance.                              *)
(***************************************************************************)
\* useState<AnalysisResult | null>(null), and the state after
\* setAnalysisResult(report)
NotShown == [shown |-> FALSE, report |-> NoReport]
Shown(report) == [shown |-> TRUE, report |-> report]

\* no run of handleFileUpload is executing
Idle == [pc |-> "idle", id |-> 0, file |-> <<>>]

\* no run of handleFileUpload has ended yet
NoUpload == [id |-> 0, outcome |-> "none"]

\* new VideoEngagementAnalyzer(data), before any analyze() call
Init ==
    /\ tz \in TimezoneOffsets
    /\ now = TimeUTC(2024, 3, 9, 12)
    /\ rawData \in Datasets
    /\ processedData = preprocessData(rawData)
    /\ lastResult = NotCalled
    /\ prevResult = NotCalled
    /\ callerData = rawData
    /\ loading = FALSE
    /\ analysisResult = NotShown
    /\ uploads = 0
    /\ pending = {}
    /\ handler = Idle
    /\ lastUpload = NoUpload

\* a call of analyze() that takes the rows it has read off the instance
\* (this.processedData consumed with shift() instead of iterated)
CallAnalyzeConsuming ==
    /\ \E t \in ClockTimes :
          /\ t >= now
          /\ now' = t
          /\ lastResult' = analyze(t)
    /\ prevResult' = lastResult
    /\ processedData' = <<>>
    /\ UNCHANGED <<tz, rawData, callerData, ui>>

\* a call of analyze() on the instance, at a reading t of the host clock
CallAnalyze ==
    /\ \E t \in ClockTimes :
          /\ t >= now
          /\ now' = t
          /\ lastResult' = analyze(t)
    /\ prevResult' = lastResult
    /\ UNCHANGED <<tz, rawData, processedData, callerData, ui>>

Next == CallAnalyze

Spec == Init /\ [][Next]_vars

(***************************************************************************)
(* The state machine of the VideoEngagementUI component.  A run of          *)
(* handleFileUpload is suspended once, at `await file.text()`; what follows *)
(* the await runs without any other callback in between, so no run starts   *)
(* or resumes while handler.pc is not "idle".                               *)
(***************************************************************************)
InitUI ==
    /\ tz \in TimezoneOffsets
    /\ now = TimeUTC(2024, 3, 9, 12)
    /\ rawData = <<>>
    /\ processedData = <<>>
    /\ lastResult = NotCalled
    /\ prevResult = NotCalled
    /\ callerData = <<>>
    /\ loading = FALSE
    /\ analysisResult = NotShown
    /\ uploads = 0
    /\ pending = {}
    /\ handler = Idle
    /\ lastUpload = NoUpload

\* event.target.files?.[0] of a change event: a file, or nothing
NoFile == <<>>

\* handleFileUpload up to its await: with no file nothing happens, with a
\* file setLoading(true) and the read of its text is started
handleFileUpload ==
    /\ handler.pc = "idle"
    /\ \E file \in Files \cup {NoFile} :
          IF file = NoFile THEN UNCHANGED vars
          ELSE /\ uploads < MaxUploads
               /\ loading' = TRUE
               /\ uploads' = uploads + 1
               /\ pending' = pending \cup {[id |-> uploads + 1, file |-> file]}
               /\ UNCHANGED <<tz, now, rawData, processedData, lastResult, prevResult,
                              callerData, analysisResult, handler, lastUpload>>

\* file.text() of upload id rejects: catch logs the error, finally
\* setLoading(false)
FileTextRejects(id) ==
    /\ handler.pc = "idle"
    /\ \E u \in pending :
          /\ u.id = id
          /\ pending' = pending \ {u}
    /\ loading' = FALSE
    /\ lastUpload' = [id |-> id, outcome |-> "caught"]
    /\ UNCHANGED <<tz, now, rawData, processedData, lastResult, prevResult,
                   callerData, analysisResult, uploads, handler>>

\* file.text() of upload id resolves: const data = parseCSV(text)
FileTextResolves(id) ==
    /\ handler.pc = "idle"
    /\ \E u \in pending :
          /\ u.id = id
          /\ pending' = pending \ {u}
          /\ callerData' = parseCSV(u.file)
          /\ handler' = [pc |-> "parsed", id |-> id, file |-> u.file]
    /\ UNCHANGED <<tz, now, rawData, processedData, lastResult, prevResult,
                   loading, analysisResult, uploads, lastUpload>>

\* new VideoEngagementAnalyzer(data) that coerces the caller's records in
\* place instead of copying them
ConstructAnalyzerInPlace ==
    /\ handler.pc = "parsed"
    /\ callerData' = preprocessData(callerData)
    /\ rawData' = preprocessData(callerData)
    /\ processedData' = preprocessData(callerData)
    /\ lastResult' = NotCalled
    /\ prevResult' = NotCalled
    /\ handler' = [handler EXCEPT !.pc = "constructed"]
    /\ UNCHANGED <<tz, now, loading, analysisResult, uploads, pending, lastUpload>>

\* const analyzer = new VideoEngagementAnalyzer(data)
ConstructAnalyzer ==
    /\ handler.pc = "parsed"
    /\ rawData' = callerData
    /\ processedData' = preprocessData(callerData)
    /\ lastResult' = NotCalled
    /\ prevResult' = NotCalled
    /\ handler' = [handler EXCEPT !.pc = "constructed"]
    /\ UNCHANGED <<tz, now, callerData, loading, analysisResult, uploads, pending,
                   lastUpload>>

\* const report = analyzer.analyze(), at a reading t of the host clock
RunAnalyze ==
    /\ handler.pc = "constructed"
    /\ \E t \in ClockTimes :
          /\ t >= now
          /\ now' = t
          /\ lastResult' = analyze(t)
    /\ prevResult' = lastResult
    /\ handler' = [handler EXCEPT !.pc = "analyzed"]
    /\ UNCHANGED <<tz, rawData, processedData, callerData, loading, analysisResult,
                   uploads, pending, lastUpload>>

\* the end of the run with the finally block taken only when the try block
\* completes: an exception leaves loading as it is
EndUploadNoFinally ==
    /\ handler.pc = "analyzed"
    /\ IF lastResult.status = "returned"
       THEN /\ analysisResult' = Shown(lastResult.report)
            /\ lastUpload' = [id |-> handler.id, outcome |-> "shown"]
            /\ loading' = FALSE
       ELSE /\ lastUpload' = [id |-> handler.id, outcome |-> "caught"]
            /\ UNCHANGED <<analysisResult, loading>>
    /\ handler' = Idle
    /\ callerData' = <<>>
    /\ UNCHANGED <<tz, now, rawData, processedData, lastResult, prevResult,
                   uploads, pending>>

\* the end of the run: setAnalysisResult(report) when analyze() returned,
\* the catch block when it threw, then finally setLoading(false)
EndUpload ==
    /\ handler.pc = "analyzed"
    /\ IF lastResult.status = "returned"
       THEN /\ analysisResult' = Shown(lastResult.report)
            /\ lastUpload' = [id |-> handler.id, outcome |-> "shown"]
       ELSE /\ lastUpload' = [id |-> handler.id, outcome |-> "caught"]
            /\ UNCHANGED analysisResult
    /\ loading' = FALSE
    /\ handler' = Idle
    /\ callerData' = <<>>
    /\ UNCHANGED <<tz, now, rawData, processedData, lastResult, prevResult,
                   uploads, pending>>

UploadIds == 1..MaxUploads

NextUI ==
    \/ handleFileUpload
    \/ \E id \in UploadIds : FileTextRejects(id)
    \/ \E id \in UploadIds : FileTextResolves(id)
    \/ ConstructAnalyzer
    \/ RunAnalyze
    \/ EndUpload

\* the handler run gets past its analyze() call: the change of handler that
\* a RunAnalyze step makes, and that no other step of NextUI makes
AnalyzeCallEnds ==
    /\ handler.pc = "constructed"
    /\ handler' = [handler EXCEPT !.pc = "analyzed"]

\* every read of a file's text settles, and a run that has resumed runs to
\* its end (the synchronous code after the await has no loop and no wait)
FairUI ==
    /\ \A id \in UploadIds : WF_vars(FileTextRejects(id) \/ FileTextResolves(id))
    /\ WF_vars(ConstructAnalyzer)
    /\ WF_handler(AnalyzeCallEnds)
    /\ WF_vars(EndUpload)

SpecUI == InitUI /\ [][NextUI]_vars /\ FairUI

(***************************************************************************)
(* Properties.                                                              *)
(***************************************************************************)
HasReport == lastResult.status = "returned"

\* the per-community entries {key, value: {metrics, insights}} of the latest report
CommunityEntries ==
    {lastResult.report.communityInsights[i] :
        i \in DOMAIN lastResult.report.communityInsights}

IsCount(x) == x.k = "fin" /\ x.d = 1 /\ x.n >= 0

\* r is the exact ratio a / b times scale, for counts a and b # 0
IsRatio(r, a, b, scale) == r.k = "fin" /\ r.n * b.n = scale * a.n * r.d

RECURSIVE SumNumbers(_)
SumNumbers(q) == IF q = <<>> THEN Num(0) ELSE JsAdd(q[1], SumNumbers(Tail(q)))

\* C1: for every community whose totals are non-negative integers, clickRate
\* is totalClicks / totalInvites * 100, playRate is totalPlays / totalClicks
\* * 100 and avgPlayTime is totalPlayTime / totalPlays, and each of the three
\* is exactly 0 when its denominator is 0
C1_RatesAreRatiosOrZero ==
    HasReport =>
        \A e \in CommunityEntries :
            LET m == e.value.metrics
            IN  (IsCount(m.totalInvites) /\ IsCount(m.totalClicks)
                 /\ IsCount(m.totalPlays) /\ IsCount(m.totalPlayTime)) =>
                    /\ IF m.totalInvites.n = 0 THEN m.clickRate = Num(0)
                       ELSE IsRatio(m.clickRate, m.totalClicks, m.totalInvites, 100)
                    /\ IF m.totalClicks.n = 0 THEN m.playRate = Num(0)
                       ELSE IsRatio(m.playRate, m.totalPlays, m.totalClicks, 100)
                    /\ IF m.totalPlays.n = 0 THEN m.avgPlayTime = Num(0)
                       ELSE IsRatio(m.avgPlayTime, m.totalPlayTime, m.totalPlays, 1)

\* a community with no invites but clicks and plays: a zero denominator next
\* to a proper ratio
C1_Witness ==
    /\ HasReport
    /\ \E e \in CommunityEntries :
        LET m == e.value.metrics
        IN  /\ m.totalInvites = Num(0)
            /\ m.totalClicks = Num(5)
            /\ m.totalPlays = Num(2)
            /\ m.clickRate = Num(0)
            /\ m.playRate = Num(40)
            /\ m.avgPlayTime = Num(4)

\* C2: in every report, for every community, the sums of invites, clicks,
\* plays and playTime over the stages of its stageBreakdown equal its
\* totalInvites, totalClicks, totalPlays and totalPlayTime
C2_StageSumsEqualTotals ==
    HasReport =>
        \A e \in CommunityEntries :
            LET m == e.value.metrics
                b == m.stageBreakdown
            IN  /\ SumNumbers([i \in DOMAIN b |-> b[i].value.invites]) = m.totalInvites
                /\ SumNumbers([i \in DOMAIN b |-> b[i].value.clicks]) = m.totalClicks
                /\ SumNumbers([i \in DOMAIN b |-> b[i].value.plays]) = m.totalPlays
                /\ SumNumbers([i \in DOMAIN b |-> b[i].value.playTime]) = m.totalPlayTime

\* a community whose single stage holds two rows
C2_Witness ==
    /\ HasReport
    /\ \E e \in CommunityEntries :
        LET b == e.value.metrics.stageBreakdown
        IN  /\ Len(b) = 1
            /\ b[1].value.count = Num(2)
            /\ e.value.metrics.totalPlays = Num(3)

ProcessedFields == {"Invites", "Clicks", "Plays", "PlayTime"}

\* C3: after construction every processed record's Invites, Clicks, Plays
\* and Play Time are finite numbers that are zero or positive
C3_ProcessedFieldsFiniteNonNegative ==
    \A i \in DOMAIN processedData : \A f \in ProcessedFields :
        IsFinite(processedData[i][f]) /\ processedData[i][f].n >= 0

\* C4: analyze() never throws, whatever the rows are
C4_AnalyzeNeverThrows == lastResult.status # "threw"

\* x > c and x < c for a number x and an integer c, on the value of x
Exceeds(x, c) == (x.k = "fin" /\ x.n > c * x.d) \/ (x.k = "inf" /\ x.n > 0)
Below(x, c) == (x.k = "fin" /\ x.n < c * x.d) \/ (x.k = "inf" /\ x.n < 0)

Texts(insights) == [i \in DOMAIN insights |-> insights[i].text]
Emits(insights, text) == \E i \in DOMAIN insights : insights[i].text = text

\* C5: the "Strong initial engagement" message is emitted if and only if
\* clickRate > 50 and the "Opportunity to improve" message if and only if
\* clickRate < 30, so clickRate from 30 to 50 emits neither, and the two are
\* never emitted together
C5_ClickRateInsightBoundaries ==
    HasReport =>
        \A e \in CommunityEntries :
            LET rate == e.value.metrics.clickRate
                ins == e.value.insights
            IN  /\ Emits(ins, StrongText) <=> Exceeds(rate, 50)
                /\ Emits(ins, OpportunityText) <=> Below(rate, 30)
                /\ ~(Emits(ins, StrongText) /\ Emits(ins, OpportunityText))

\* a community whose click rate is exactly 50 and gets no click-rate message
C5_Witness ==
    /\ HasReport
    /\ \E e \in CommunityEntries :
        /\ e.value.metrics.clickRate = Num(50)
        /\ e.value.metrics.totalInvites = Num(6)
        /\ ~Emits(e.value.insights, StrongText)
        /\ ~Emits(e.value.insights, OpportunityText)

\* C6: the strategies are, in this order, "Improve Initial Engagement" iff
\* clickRate < 40, "Increase Play Rate" iff playRate < 70 and "Extend Watch
\* Time" iff avgPlayTime < 3, each with exactly four actions
C6_StrategyGatesInOrder ==
    HasReport =>
        \A i \in DOMAIN lastResult.report.followUpStrategies :
            LET community == lastResult.report.followUpStrategies[i].key
                strategies == lastResult.report.followUpStrategies[i].value
                m == lastResult.report.communityInsights[i].value.metrics
                expected ==
                    (IF Below(m.clickRate, 40)
                        THEN <<"Improve Initial Engagement">> ELSE <<>>)
                    \o (IF Below(m.playRate, 70) THEN <<"Increase Play Rate">> ELSE <<>>)
                    \o (IF Below(m.avgPlayTime, 3) THEN <<"Extend Watch Time">> ELSE <<>>)
            IN  /\ lastResult.report.communityInsights[i].key = community
                /\ [j \in DOMAIN strategies |-> strategies[j].focus] = expected
                /\ \A j \in DOMAIN strategies : Len(strategies[j].actions) = 4

\* a community whose average play time is exactly 3, with plays, and whose
\* only strategy is "Increase Play Rate"
C6_Witness ==
    /\ HasReport
    /\ \E i \in DOMAIN lastResult.report.followUpStrategies :
        LET m == lastResult.report.communityInsights[i].value.metrics
            strategies == lastResult.report.followUpStrategies[i].value
        IN  /\ m.avgPlayTime = Num(3)
            /\ m.totalPlays = Num(2)
            /\ Len(strategies) = 1
            /\ strategies[1].focus = "Increase Play Rate"

\* C7: every community's insights are, in this order, at most one click-rate
\* message, the "Excellent average watch time" message iff avgPlayTime > 5,
\* and the one "Strongest performance" message last
C7_InsightsInRuleOrder ==
    HasReport =>
        \A e \in CommunityEntries :
            LET texts == Texts(e.value.insights)
                watch == IF Exceeds(e.value.metrics.avgPlayTime, 5)
                         THEN <<ExcellentText>> ELSE <<>>
            IN  \/ texts = watch \o <<StrongestText>>
                \/ texts = <<StrongText>> \o watch \o <<StrongestText>>
                \/ texts = <<OpportunityText>> \o watch \o <<StrongestText>>

\* a community whose average play time is exactly 5: the click-rate message
\* and the strongest-stage message, no watch-time message
C7_Witness ==
    /\ HasReport
    /\ \E e \in CommunityEntries :
        /\ e.value.metrics.avgPlayTime = Num(5)
        /\ e.value.metrics.clickRate = Num(60)
        /\ e.value.insights =
            <<Insight(StrongText, Fixed("", 60, 0, "digits"), ""),
              Insight(StrongestText, NoText, "Welcome")>>

\* the plays of the rows of a community and stage among the first n rows
RECURSIVE PlaysOf(_, _, _)
PlaysOf(community, stage, n) ==
    IF n = 0 THEN Num(0)
    ELSE IF processedData[n].Community = community
            /\ processedData[n].AutomationStage = stage
         THEN JsAdd(PlaysOf(community, stage, n - 1), processedData[n].Plays)
         ELSE PlaysOf(community, stage, n - 1)

RowsOf(community) ==
    {i \in DOMAIN processedData : processedData[i].Community = community}

\* the row at which a stage of a community is first seen
FirstRow(community, stage) ==
    CHOOSE i \in RowsOf(community) :
        /\ processedData[i].AutomationStage = stage
        /\ \A j \in RowsOf(community) :
                processedData[j].AutomationStage = stage => i <= j

\* C8: the stage named in the "Strongest performance" insight has the most
\* plays of the community's stages, and of the stages that share the most
\* plays it is the one whose first row comes earliest in the community's rows
C8_StrongestIsFirstSeenMaximum ==
    HasReport =>
        \A e \in CommunityEntries :
            LET n == Len(processedData)
                named == e.value.insights[Len(e.value.insights)].stage
                stages == {processedData[i].AutomationStage : i \in RowsOf(e.key)}
                most == {s \in stages :
                            \A o \in stages :
                                ~JsGt(PlaysOf(e.key, o, n), PlaysOf(e.key, s, n))}
            IN  /\ named \in most
                /\ \A s \in most : FirstRow(e.key, named) <= FirstRow(e.key, s)

BothCalls == prevResult.status # "none" /\ lastResult.status # "none"

\* C9: two analyze() calls on one instance end the same way, and when they
\* return their reports are identical but for the analysis date, which is
\* identical too when the current date is the same at both calls
C9_RepeatedAnalyzeIdentical ==
    BothCalls =>
        /\ prevResult.status = lastResult.status
        /\ [prevResult.report EXCEPT !.analysisDate = <<>>]
            = [lastResult.report EXCEPT !.analysisDate = <<>>]
        /\ now = TimeUTC(2024, 3, 9, 12) => prevResult = lastResult

\* two calls on the same day, both returning a report of two communities
C9_Witness ==
    /\ BothCalls
    /\ HasReport
    /\ now = TimeUTC(2024, 3, 9, 12)
    /\ lastResult.report.analysisDate = <<2024, 3, 9>>
    /\ prevResult.report.analysisDate = <<2024, 3, 9>>
    /\ Len(lastResult.report.communityInsights) = 2

\* the year and month of the tracking date of row i: the ones its text
\* spells when it is in the YYYY-MM-DD form, else the UTC ones of its Date
RowMonth(i) ==
    LET raw == rawData[i].TrackingDate
        f == DateFields(raw.str)
    IN  IF raw.t = "string" /\ f.ok /\ f.utc THEN <<f.y, f.m>>
        ELSE LET c == CivilFromDays(Epoch.y, Epoch.m, processedData[i].TrackingDate.t \div 24)
             IN  <<c.y, c.m>>

\* the sum of a field over the rows of a set, by induction on the set
RECURSIVE SumRows(_, _)
SumRows(rows, field) ==
    IF rows = {} THEN Num(0)
    ELSE LET i == CHOOSE r \in rows : TRUE
         IN  JsAdd(processedData[i][field], SumRows(rows \ {i}, field))

KeySet(obj) == {obj[i].key : i \in DOMAIN obj}

\* the sum over the communities of the report of one of their totals
CommunitySum(total) ==
    LET ci == lastResult.report.communityInsights
    IN  SumNumbers([i \in DOMAIN ci |-> ci[i].value.metrics[total]])

\* the sum over the monthly buckets of the report of one of their fields
MonthlySum(field) ==
    LET trends == lastResult.report.monthlyTrends
    IN  SumNumbers([i \in DOMAIN trends |-> trends[i].value[field]])

\* C13: in every report each processed row is counted once in the community
\* metrics and once in the monthly trends: communityInsights and
\* followUpStrategies each hold one key per distinct Community value of the
\* rows and no other, the sums over the communities of totalInvites,
\* totalClicks, totalPlays and totalPlayTime equal the sums over the monthly
\* buckets of invites, clicks, plays and playTime (both being the sums over
\* the rows), and the monthly counts sum to the number of rows
C13_RowsCountedOncePerGrouping ==
    HasReport =>
        LET ci == lastResult.report.communityInsights
            fs == lastResult.report.followUpStrategies
            all == DOMAIN processedData
            present == {processedData[i].Community : i \in all}
        IN  /\ KeySet(ci) = present
            /\ KeySet(fs) = present
            /\ Len(ci) = Cardinality(present)
            /\ Len(fs) = Cardinality(present)
            /\ CommunitySum("totalInvites") = MonthlySum("invites")
            /\ CommunitySum("totalClicks") = MonthlySum("clicks")
            /\ CommunitySum("totalPlays") = MonthlySum("plays")
            /\ CommunitySum("totalPlayTime") = MonthlySum("playTime")
            /\ MonthlySum("invites") = SumRows(all, "Invites")
            /\ MonthlySum("clicks") = SumRows(all, "Clicks")
            /\ MonthlySum("plays") = SumRows(all, "Plays")
            /\ MonthlySum("playTime") = SumRows(all, "PlayTime")
            /\ MonthlySum("count") = Num(Len(processedData))

\* a report of two rows that differ in community and in month: two
\* communities and two monthly buckets, each total 20 invites
C13_Witness ==
    /\ HasReport
    /\ Len(processedData) = 2
    /\ KeySet(lastResult.report.communityInsights) = {"North", "South"}
    /\ KeySet(lastResult.report.monthlyTrends) = {<<2024, 1>>, <<2024, 2>>}
    /\ CommunitySum("totalInvites") = Num(20)
    /\ MonthlySum("invites") = Num(20)

\* a step that constructs the analyzer, and a step that calls analyze()
IsConstruction == handler.pc = "parsed" /\ handler'.pc = "constructed"
IsAnalyzeCall == handler.pc = "constructed" /\ handler'.pc = "analyzed"

\* C11: the constructor leaves the caller's raw records as they were (it
\* retains them as rawData and builds the processed records beside them),
\* and every analyze() call leaves the caller's records and the analyzer's
\* rawData and processedData as they were
C11_ConstructAndAnalyzeMutateNothing ==
    [][/\ IsConstruction =>
            /\ callerData' = callerData
            /\ rawData' = callerData
       /\ IsAnalyzeCall =>
            /\ callerData' = callerData
            /\ rawData' = rawData
            /\ processedData' = processedData]_vars

\* after the constructor and a returning analyze() call on two parsed rows:
\* the caller's rows are still the parsed ones, the processed rows differ
C11_Witness ==
    /\ handler.pc = "analyzed"
    /\ lastResult.status = "returned"
    /\ Len(callerData) = 2
    /\ callerData = parseCSV(handler.file)
    /\ rawData = callerData
    /\ processedData = preprocessData(callerData)
    /\ processedData # callerData

\* a step that ends a run of handleFileUpload
IsEndOfRun == lastUpload' # lastUpload

\* the run that ends got through reading, parsing and analysis
Succeeds == handler.pc = "analyzed" /\ lastResult.status = "returned"

IsPending(id) == \E u \in pending : u.id = id

\* C12: every upload of a selected file sets loading to true; every run of
\* the handler ends with loading set to false, with the error caught and the
\* displayed result left as it was when the read or the analysis threw, and
\* with the displayed result set to the report of the uploaded file when
\* they succeeded; and every upload started gets to that end
C12_UploadSetsAndClearsLoading ==
    /\ [][uploads' # uploads => loading']_vars
    /\ [][IsEndOfRun =>
            /\ ~loading'
            /\ handler' = Idle
            /\ IF Succeeds
               THEN /\ lastUpload'.outcome = "shown"
                    /\ analysisResult' = Shown(lastResult.report)
                    /\ rawData = parseCSV(handler.file)
                    /\ processedData = preprocessData(rawData)
                    /\ lastResult = analyze(now)
               ELSE /\ lastUpload'.outcome = "caught"
                    /\ analysisResult' = analysisResult]_vars
    /\ \A id \in UploadIds :
            IsPending(id) ~> (lastUpload.id = id /\ ~loading)

\* a second upload that threw, ended with loading false and the report of
\* the first upload still displayed
C12_Witness ==
    /\ lastUpload = [id |-> 2, outcome |-> "caught"]
    /\ ~loading
    /\ pending = {}
    /\ handler = Idle
    /\ analysisResult.shown
    /\ Len(analysisResult.report.communityInsights) = 2

====
